---- MODULE Spec2Model ----
(***************************************************************************)
(* Model of model_distillation_colab_notebook.ipynb: the batch embedding   *)
(* extractor get_model_embeddings (Step 6) and the notebook cells that     *)
(* call it and consume its result (Steps 5, 7, 8).                         *)
(*                                                                         *)
(* A text is a record [isstr, tokens]: isstr is FALSE for a non-string     *)
(* entry (the tokenizer rejects it), tokens is the text's token-id         *)
(* sequence at its true length.  Numbers are exact: a mean is the reduced  *)
(* fraction <<numerator, denominator>>.                                    *)
(***************************************************************************)
EXTENDS Integers, Sequences, FiniteSets, TLC

VARIABLES
    \* module-level names of the notebook kernel
    texts, labels, embeddings, max_length, device, teacher_model, tokenizer,
    grad_enabled,
    \* the frame of get_model_embeddings
    pc, f_texts, f_embeddings, i, batch_texts, inputs, no_grad_prev,
    \* what the collaborators and the caller observe of the current call
    tokenizer_calls, encoder_calls, exc, caller,
    \* the test caller: a cut point of the corpus and its result variables
    cut, out,
    \* the notebook run: the cell to run next, the dataset, the split
    cell, imdb_train, split,
    \* the student models: Steps 9 to 12
    models, results, best_model_name, best_model, artifact, test_embeddings,
    predictions

globals == <<texts, labels, embeddings, max_length, device, teacher_model,
             tokenizer, grad_enabled>>
frame == <<pc, f_texts, f_embeddings, i, batch_texts, inputs, no_grad_prev>>
observed == <<tokenizer_calls, encoder_calls, exc, caller>>
notebook == <<cell, imdb_train, split>>
students == <<models, results, best_model_name, best_model, artifact,
              test_embeddings, predictions>>
vars == <<globals, frame, observed, cut, out, notebook, students>>

(* ------------------------------ bounds --------------------------------- *)
\* The source sets batch_size = 8 (line 236), max_length = 128 (line 112) and
\* num_samples = 1000 (line 113); the model runs them scaled down.
batch_size == 2
MaxLength == 2
HalfSamples == 1
\* Longest corpus handed to get_model_embeddings by the test caller.
MaxTexts == 3
\* Hidden dimensionality D of the encoder.
hidden_size == 1

num_samples == 2 * HalfSamples

(* --------------------------- external data ----------------------------- *)
\* pad_token_id of the tokenizer.
PAD == 0

Str(toks) == [isstr |-> TRUE, tokens |-> toks]
NotAString == [isstr |-> FALSE, tokens |-> <<>>]

\* Inputs: a text shorter than the maximum length (padded), one of exactly
\* that many tokens, one longer (truncated), and a non-string entry.
ShortText == Str(<<1>>)
FullText == Str([p \in 1..MaxLength |-> 1])
LongText == Str([p \in 1..(MaxLength + 1) |-> IF p = 1 THEN 2 ELSE 1])
StringTexts == {ShortText, FullText, LongText}
TextUniverse == StringTexts \cup {NotAString}

Unbound == [unbound |-> TRUE]
\* The value of a string name that is not bound yet.
NoName == ""

(* ------------------------------ helpers -------------------------------- *)
Min(a, b) == IF a < b THEN a ELSE b

RECURSIVE Gcd(_, _)
Gcd(a, b) == IF b = 0 THEN a ELSE Gcd(b, a % b)

\* The exact quotient n / d (n >= 0, d > 0) in lowest terms.
Frac(n, d) == LET g == Gcd(n, d) IN <<n \div g, d \div g>>

RECURSIVE SumTo(_, _)
SumTo(f, n) == IF n = 0 THEN 0 ELSE f[n] + SumTo(f, n - 1)

\* Python slice s[a:b] of a 0-indexed list held as a 1-indexed sequence.
Slice(s, a, b) == SubSeq(s, a + 1, Min(b, Len(s)))

(* ------------------------ tokenizer and encoder ------------------------ *)
\* tokenizer(..., padding="max_length", truncation=True, max_length=L) on one
\* text: input_ids and attention_mask of length exactly L.
TokenizeOne(text, L) ==
    [input_ids |-> [p \in 1..L |-> IF p <= Len(text.tokens) THEN text.tokens[p] ELSE PAD],
     attention_mask |-> [p \in 1..L |-> IF p <= Len(text.tokens) THEN 1 ELSE 0]]

TokenizerAccepts(batch) == \A k \in 1..Len(batch) : batch[k].isstr

Tokenizer(batch, L) == [k \in 1..Len(batch) |-> TokenizeOne(batch[k], L)]

\* The encoder's hidden state at position p, dimension d, of one tokenized
\* text: the position's own token plus the attended (unmasked) context.  A
\* padding position has a hidden state too.  In training mode dropout
\* (noise = 0) zeroes the activations; in evaluation mode noise is 1.
Context(inp) ==
    SumTo([q \in 1..Len(inp.input_ids) |-> inp.attention_mask[q] * inp.input_ids[q]],
          Len(inp.input_ids))

HiddenState(m, inp, p, d, noise) ==
    noise * (m.seed * inp.input_ids[p] + Context(inp) + d)

\* outputs.last_hidden_state of one text: [position -> [dimension -> value]].
LastHiddenState(m, inp, noise) ==
    [p \in 1..Len(inp.input_ids) |->
        [d \in 1..hidden_size |-> HiddenState(m, inp, p, d, noise)]]

\* The dropout outcomes a forward pass can take in the encoder's mode.
DropoutNoise(m) == IF m.training THEN {0, 1} ELSE {1}

\* last_hidden_state.mean(dim=1) of one text: the sum over every position of
\* the sequence axis divided by the length of that axis.
MeanDim1(lhs) ==
    [d \in 1..hidden_size |->
        Frac(SumTo([p \in 1..Len(lhs) |-> lhs[p][d]], Len(lhs)), Len(lhs))]

\* mean_embeddings of a tokenized batch, one row per text of the batch.
MeanEmbeddings(m, inps, noise) ==
    [k \in 1..Len(inps) |-> MeanDim1(LastHiddenState(m, inps[k], noise))]

(* ------------------------- get_model_embeddings ------------------------ *)
\* embeddings = []
NewList == <<>>

\* A loop that also runs once at the end of the list.
RangeHasNextInclusive(k, n) == k <= n

\* range(0, len(texts), batch_size) yields i while i < len(texts).
RangeHasNext(k, n) == k < n

\* A loop that advances one text at a time.
RangeStepOne(k) == k + 1

RangeStep(k) == k + batch_size

\* A slice that stops one short: texts[i:i+batch_size-1].
BatchTextsShort(ts, k) == Slice(ts, k, k + batch_size - 1)

\* batch_texts = texts[i:i+batch_size]
BatchTexts(ts, k) == Slice(ts, k, k + batch_size)

\* The rows of a batch appended last to first.
AppendAllReversed(list, rows) ==
    list \o [k \in 1..Len(rows) |-> rows[Len(rows) + 1 - k]]

\* The rows put in front of the list instead of behind it.
AppendAllFront(list, rows) == rows \o list

\* for emb in mean_embeddings: embeddings.append(emb)
AppendAll(list, rows) == list \o rows

\* np.array(embeddings): a list of N rows of width D becomes an (N, D) array;
\* the empty list becomes the one-dimensional array of shape (0,).
NpArray(list) ==
    IF list = <<>>
    THEN [shape |-> <<0>>, data |-> <<>>]
    ELSE [shape |-> <<Len(list), Len(list[1])>>, data |-> list]

\* The assignment reaching the module-level name (a `global embeddings`).
ModuleLevelRebound(e, list) == NpArray(list)

\* The module-level name `embeddings` after the function assigned its own
\* `embeddings`: the assignment binds a name local to the frame.
ModuleLevelAfterLocalBind(e, list) == e

\* A handler that swallows the failure and goes on with the loop.
AfterRaiseContinue == "for"

\* Where control is after the tokenizer or the encoder raised inside the
\* with-block: no_grad's __exit__ does not swallow the exception and the
\* function has no handler, so the frame is left.
AfterRaise == "idle"

\* The exception the caller sees is the object that was raised.
Propagated(e) == e

\* An exit that switches gradient tracking on whatever the mode was before.
NoGradExitEnables(prev) == TRUE

\* torch.no_grad(): __enter__ disables gradient tracking, __exit__ restores
\* the mode saved on entry.
NoGradEnter(g) == FALSE
NoGradExit(prev) == prev

\* The argument of a call by the test caller: the head or the tail of the
\* corpus at the cut point, or the whole corpus.
Slots == {"head", "tail", "whole"}
Arg(slot) ==
    CASE slot = "head" -> Slice(texts, 0, cut)
      [] slot = "tail" -> Slice(texts, cut, Len(texts))
      [] slot = "whole" -> texts

\* def get_model_embeddings(texts, tokenizer, model): up to the loop head.
Enter(who, ts) ==
    /\ pc = "idle"
    /\ pc' = "for"
    /\ caller' = who
    /\ f_texts' = ts
    /\ f_embeddings' = NewList
    /\ embeddings' = ModuleLevelAfterLocalBind(embeddings, NewList)
    /\ i' = 0
    /\ batch_texts' = <<>>
    /\ inputs' = <<>>
    /\ tokenizer_calls' = 0
    /\ encoder_calls' = <<>>
    /\ exc' = "none"
    /\ UNCHANGED <<texts, labels, max_length, device, teacher_model, tokenizer,
                   grad_enabled, no_grad_prev>>

Call(slot) ==
    /\ cell = "test"
    /\ Enter(slot, Arg(slot))
    /\ UNCHANGED <<cut, out, notebook, students>>

\* One iteration up to the tokenizer's return: the slice, entering no_grad,
\* the tokenizer call and the move to the device.
Tokenize ==
    /\ pc = "for"
    /\ RangeHasNext(i, Len(f_texts))
    /\ LET batch == BatchTexts(f_texts, i) IN
        /\ TokenizerAccepts(batch)
        /\ batch_texts' = batch
        /\ inputs' = Tokenizer(batch, max_length)
    /\ tokenizer_calls' = tokenizer_calls + 1
    /\ no_grad_prev' = grad_enabled
    /\ grad_enabled' = NoGradEnter(grad_enabled)
    /\ pc' = "fwd"
    /\ UNCHANGED <<texts, labels, embeddings, max_length, device, teacher_model,
                   tokenizer, f_texts, f_embeddings, i, encoder_calls, exc,
                   caller, cut, out, notebook, students>>

\* The tokenizer rejects the batch (a non-string entry): the exception leaves
\* the with-block and the function.
TokenizerRaises ==
    /\ pc = "for"
    /\ RangeHasNext(i, Len(f_texts))
    /\ LET batch == BatchTexts(f_texts, i) IN
        /\ ~TokenizerAccepts(batch)
        /\ batch_texts' = batch
    /\ tokenizer_calls' = tokenizer_calls + 1
    /\ no_grad_prev' = grad_enabled
    /\ grad_enabled' = NoGradExit(grad_enabled)
    /\ exc' = Propagated("TokenizerError")
    /\ pc' = AfterRaise
    /\ cell' = IF cell = "test" THEN cell ELSE "halted"
    /\ UNCHANGED <<texts, labels, embeddings, max_length, device, teacher_model,
                   tokenizer, f_texts, f_embeddings, i, inputs, encoder_calls,
                   caller, cut, out, imdb_train, split, students>>

\* The rest of the iteration: the forward pass, mean pooling, the appends and
\* leaving no_grad.
Forward ==
    /\ pc = "fwd"
    /\ \E noise \in DropoutNoise(teacher_model) :
        f_embeddings' = AppendAll(f_embeddings,
                                  MeanEmbeddings(teacher_model, inputs, noise))
    /\ encoder_calls' = Append(encoder_calls,
                               [start |-> i, size |-> Len(inputs),
                                grad |-> grad_enabled])
    /\ grad_enabled' = NoGradExit(no_grad_prev)
    /\ i' = RangeStep(i)
    /\ pc' = "for"
    /\ UNCHANGED <<texts, labels, embeddings, max_length, device, teacher_model,
                   tokenizer, f_texts, batch_texts, inputs, no_grad_prev,
                   tokenizer_calls, exc, caller, cut, out, notebook, students>>

\* The encoder fails on the batch (out of memory, a library error).
ForwardRaises ==
    /\ pc = "fwd"
    /\ encoder_calls' = Append(encoder_calls,
                               [start |-> i, size |-> Len(inputs),
                                grad |-> grad_enabled])
    /\ grad_enabled' = NoGradExit(no_grad_prev)
    /\ exc' = Propagated("EncoderError")
    /\ pc' = AfterRaise
    /\ cell' = IF cell = "test" THEN cell ELSE "halted"
    /\ UNCHANGED <<texts, labels, embeddings, max_length, device, teacher_model,
                   tokenizer, f_texts, f_embeddings, i, batch_texts, inputs,
                   no_grad_prev, tokenizer_calls, caller, cut, out, imdb_train,
                   split, students>>

\* The loop is exhausted: return np.array(embeddings); the caller binds the
\* result to its variable.
Return ==
    /\ pc = "for"
    /\ ~RangeHasNext(i, Len(f_texts))
    /\ pc' = "idle"
    /\ CASE caller \in Slots ->
               /\ out' = [out EXCEPT ![caller] = NpArray(f_embeddings)]
               /\ UNCHANGED <<embeddings, test_embeddings, cell>>
         [] caller = "step7" ->
               /\ embeddings' = NpArray(f_embeddings)
               /\ cell' = "step8"
               /\ UNCHANGED <<out, test_embeddings>>
         [] caller = "step12" ->
               /\ test_embeddings' = NpArray(f_embeddings)
               /\ cell' = "step12_predict"
               /\ UNCHANGED <<out, embeddings>>
    /\ UNCHANGED <<texts, labels, max_length, device, teacher_model, tokenizer,
                   grad_enabled, f_texts, f_embeddings, i, batch_texts, inputs,
                   no_grad_prev, tokenizer_calls, encoder_calls, exc, caller, cut,
                   imdb_train, split, models, results, best_model_name,
                   best_model, artifact, predictions>>

(* ----------------------------- test caller ----------------------------- *)
\* The model left in training mode (no teacher_model.eval()).
ModeWithoutEval == TRUE

\* Step 3 and Step 4 have run: max_length is set and the teacher model is
\* loaded and put in evaluation mode.
ModeAfterEval == FALSE

\* The pretrained weights the encoder may have been loaded with.
Weights == {1, 2}

Corpora == UNION {[1..n -> TextUniverse] : n \in 0..MaxTexts}

KernelInit ==
    /\ max_length = MaxLength
    /\ device \in {"cpu", "cuda"}
    /\ teacher_model \in {[training |-> ModeAfterEval, seed |-> w] : w \in Weights}
    /\ tokenizer = [pad_token_id |-> PAD, padding_side |-> "right"]
    /\ grad_enabled \in BOOLEAN
    /\ no_grad_prev = grad_enabled
    /\ pc = "idle"
    /\ f_texts = <<>>
    /\ f_embeddings = <<>>
    /\ i = 0
    /\ batch_texts = <<>>
    /\ inputs = <<>>
    /\ tokenizer_calls = 0
    /\ encoder_calls = <<>>
    /\ exc = "none"
    /\ caller = "none"
    /\ embeddings = Unbound
    /\ out = [s \in Slots |-> Unbound]
    /\ split = Unbound
    /\ models = Unbound
    /\ results = Unbound
    /\ best_model_name = NoName
    /\ best_model = Unbound
    /\ artifact = Unbound
    /\ test_embeddings = Unbound
    /\ predictions = Unbound

Init ==
    /\ KernelInit
    /\ texts \in Corpora
    /\ labels = [k \in 1..Len(texts) |-> 0]
    /\ cut \in 0..Len(texts)
    /\ cell = "test"
    /\ imdb_train = <<>>

Next ==
    \/ \E slot \in Slots : Call(slot)
    \/ Tokenize
    \/ TokenizerRaises
    \/ Forward
    \/ ForwardRaises
    \/ Return

Spec == Init /\ [][Next]_vars

(* ------------------------------ notebook ------------------------------- *)
\* Where the second class starts in the train split: the source's 12500,
\* scaled with num_samples (it is no smaller than num_samples).
SecondSliceStart == num_samples
TrainLen == SecondSliceStart + HalfSamples

\* The datasets column "text" holds strings only.
DatasetTexts == {ShortText, LongText}
Examples == [text : DatasetTexts, label : {0, 1}]

\* load_dataset("imdb", split=f"train[a:b]")
LoadDataset(a, b) == Slice(imdb_train, a, b)
TextColumn(ds) == [k \in 1..Len(ds) |-> ds[k].text]
LabelColumn(ds) == [k \in 1..Len(ds) |-> ds[k].label]

\* The elements of s at the indices in idx, in increasing index order,
\* looking at the indices k..Len(s).
RECURSIVE TakeFrom(_, _, _)
TakeFrom(s, idx, k) ==
    IF k > Len(s) THEN <<>>
    ELSE (IF k \in idx THEN <<s[k]>> ELSE <<>>) \o TakeFrom(s, idx, k + 1)

\* ceil(test_size * n) for test_size = 0.2
TestCount(n) == (n + 4) \div 5

\* train_test_split(X, y, test_size=0.2, ...): one partition of the row
\* indices, applied to X and to y alike.  random_state and stratify decide
\* which partition; the model admits every partition of the right sizes.
TrainTestSplit(X, y, test) ==
    LET train == (1..Len(y)) \ test IN
    [X_train |-> TakeFrom(X.data, train, 1), X_test |-> TakeFrom(X.data, test, 1),
     y_train |-> TakeFrom(y, train, 1), y_test |-> TakeFrom(y, test, 1)]

\* Step 7: embeddings = get_model_embeddings(texts, tokenizer, teacher_model)
Step7 ==
    /\ cell = "step7"
    /\ Enter("step7", texts)
    /\ UNCHANGED <<cut, out, notebook, students>>

\* Step 8: texts and labels are rebound to the balanced corpus, then
\* train_test_split(embeddings, labels, ...) is called.
Step8 ==
    /\ cell = "step8"
    /\ pc = "idle"
    /\ LET pos_examples == LoadDataset(0, num_samples \div 2)
           neg_examples == LoadDataset(SecondSliceStart,
                                       SecondSliceStart + num_samples \div 2)
           new_labels == LabelColumn(pos_examples) \o LabelColumn(neg_examples)
       IN /\ texts' = TextColumn(pos_examples) \o TextColumn(neg_examples)
          /\ labels' = new_labels
          /\ IF embeddings.shape[1] = Len(new_labels)
             THEN /\ \E test \in SUBSET (1..Len(new_labels)) :
                        /\ Cardinality(test) = TestCount(Len(new_labels))
                        /\ split' = TrainTestSplit(embeddings, new_labels, test)
                  /\ cell' = "step9"
                  /\ exc' = exc
             ELSE /\ split' = split
                  /\ cell' = "halted"
                  /\ exc' = "ValueError"
    /\ UNCHANGED <<embeddings, max_length, device, teacher_model, tokenizer,
                   grad_enabled, frame, tokenizer_calls, encoder_calls, caller,
                   cut, out, imdb_train, students>>

(* --------------------------- student models --------------------------- *)
\* The keys of the models dictionary, in insertion order.
ModelNames == <<"Logistic Regression", "Random Forest", "MLP (Neural Network)">>

\* a < b for two fractions.
FracLess(a, b) == a[1] * b[2] < b[1] * a[2]

\* A classifier is opaque: fit leaves it with learned parameters, here a
\* threshold on the first feature, and predict is a function of them.
Thetas == {<<0, 1>>, <<4, 1>>, <<100, 1>>}
Unfitted(name) == [name |-> name, fitted |-> FALSE, theta |-> <<0, 1>>]
Fitted(clf, theta) == [clf EXCEPT !.fitted = TRUE, !.theta = theta]
Predict(clf, X) ==
    [k \in 1..Len(X) |-> IF FracLess(X[k][1], clf.theta) THEN 0 ELSE 1]

\* accuracy_score(y_true, y_pred): the fraction of equal entries.
AccuracyScore(y_true, y_pred) ==
    Frac(Cardinality({k \in 1..Len(y_true) : y_true[k] = y_pred[k]}), Len(y_true))

\* A comparison that lets a later equal key win.
KeyGreaterOrEqual(a, b) == ~FracLess(a, b)

\* max keeps the item it holds unless the next key is greater.
KeyGreater(a, b) == FracLess(b, a)

\* max(results, key=results.get): the keys are visited in insertion order.
RECURSIVE MaxFrom(_, _, _)
MaxFrom(rs, k, best) ==
    IF k > Len(rs) THEN best
    ELSE MaxFrom(rs, k + 1,
                 IF KeyGreater(rs[k].accuracy, rs[best].accuracy) THEN k ELSE best)
MaxByAccuracy(rs) == rs[MaxFrom(rs, 2, 1)].name

\* test_texts of Step 12: five short reviews.
test_texts == <<Str(<<1>>), Str(<<2>>), Str(<<1>>), Str(<<2>>), Str(<<2>>)>>

\* Step 9, up to the loop: the models dictionary and the empty results.
Step9 ==
    /\ cell = "step9"
    /\ models' = [n \in {ModelNames[k] : k \in 1..Len(ModelNames)} |-> Unfitted(n)]
    /\ results' = <<>>
    /\ cell' = "step9_loop"
    /\ UNCHANGED <<globals, frame, observed, cut, out, imdb_train, split,
                   best_model_name, best_model, artifact, test_embeddings,
                   predictions>>

\* One iteration of `for name, model in models.items()`: fit, predict on the
\* test set, score, record; after the last one the cell is done.
Step9Fit ==
    /\ cell = "step9_loop"
    /\ LET name == ModelNames[Len(results) + 1] IN
       \E theta \in Thetas :
          LET model == Fitted(models[name], theta)
              y_pred == Predict(model, split.X_test)
              accuracy == AccuracyScore(split.y_test, y_pred)
          IN /\ models' = [models EXCEPT ![name] = model]
             /\ results' = Append(results, [name |-> name, accuracy |-> accuracy])
    /\ cell' = IF Len(results) + 1 = Len(ModelNames) THEN "step10" ELSE cell
    /\ UNCHANGED <<globals, frame, observed, cut, out, imdb_train, split,
                   best_model_name, best_model, artifact, test_embeddings,
                   predictions>>

\* Step 10: best_model_name = max(results, key=results.get)
Step10 ==
    /\ cell = "step10"
    /\ best_model_name' = MaxByAccuracy(results)
    /\ cell' = "step11"
    /\ UNCHANGED <<globals, frame, observed, cut, out, imdb_train, split, models,
                   results, best_model, artifact, test_embeddings, predictions>>

\* Step 11: best_model = models[best_model_name]; joblib.dump(best_model, ...)
Step11 ==
    /\ cell = "step11"
    /\ best_model' = models[best_model_name]
    /\ artifact' = models[best_model_name]
    /\ cell' = "step12"
    /\ UNCHANGED <<globals, frame, observed, cut, out, imdb_train, split, models,
                   results, best_model_name, test_embeddings, predictions>>

\* Step 12: test_embeddings = get_model_embeddings(test_texts, ...)
Step12 ==
    /\ cell = "step12"
    /\ Enter("step12", test_texts)
    /\ UNCHANGED <<cut, out, notebook, students>>

\* Step 12 after the call: predictions = best_model.predict(test_embeddings)
Step12Predict ==
    /\ cell = "step12_predict"
    /\ pc = "idle"
    /\ predictions' = [model |-> best_model.name,
                       labels |-> Predict(best_model, test_embeddings.data)]
    /\ cell' = "done"
    /\ UNCHANGED <<globals, frame, observed, cut, out, imdb_train, split, models,
                   results, best_model_name, best_model, artifact,
                   test_embeddings>>

\* Steps 1 to 5 have run: the model is loaded and texts, labels hold the
\* first num_samples examples of the train split.
InitNotebook ==
    /\ KernelInit
    /\ imdb_train \in [1..TrainLen -> Examples]
    /\ texts = TextColumn(LoadDataset(0, num_samples))
    /\ labels = LabelColumn(LoadDataset(0, num_samples))
    /\ cut = 0
    /\ cell = "step7"

\* The datasets texts are strings, so the tokenizer accepts every batch of
\* this run; the encoder may still fail.
NextNotebook ==
    \/ Step7
    \/ Tokenize
    \/ Forward
    \/ ForwardRaises
    \/ Return
    \/ Step8
    \/ Step9
    \/ Step9Fit
    \/ Step10
    \/ Step11
    \/ Step12
    \/ Step12Predict

NotebookSpec == InitNotebook /\ [][NextNotebook]_vars

\* A run on a fresh GPU runtime (gradient tracking on) with the train split
\* as published: sorted by label, the first class first.
InitFreshRun ==
    /\ InitNotebook
    /\ device = "cuda"
    /\ grad_enabled
    /\ \A k \in 1..TrainLen :
          imdb_train[k].label = (IF k <= SecondSliceStart THEN 0 ELSE 1)

FreshRunSpec == InitFreshRun /\ [][NextNotebook]_vars

(* ------------------------------- claims -------------------------------- *)
\* The pooled vector of one text: the tokenizer, the encoder in evaluation
\* mode and the mean over the sequence axis, applied to that text alone.
PooledRow(text) ==
    MeanDim1(LastHiddenState(teacher_model, TokenizeOne(text, max_length), 1))

\* The mean of the hidden states over the non-padding positions only.
MaskedMean(text) ==
    LET inp == TokenizeOne(text, max_length)
        lhs == LastHiddenState(teacher_model, inp, 1)
        L == Len(inp.input_ids)
    IN [d \in 1..hidden_size |->
           Frac(SumTo([p \in 1..L |-> inp.attention_mask[p] * lhs[p][d]], L),
                SumTo(inp.attention_mask, L))]

Bound(slot) == out[slot] # Unbound

\* np.concatenate((a, b)) along axis 0 of two arrays of the same width.
Concatenate(a, b) ==
    [shape |-> <<a.shape[1] + b.shape[1], a.shape[2]>>, data |-> a.data \o b.data]

\* C1: every array a call has returned has exactly as many rows as the call
\* had texts, and row k is the pooled vector of texts[k]: nothing is
\* skipped, duplicated, filtered or reordered.
C1_RowsInInputOrder ==
    \A s \in Slots :
        Bound(s) =>
            /\ out[s].shape[1] = Len(Arg(s))
            /\ Len(out[s].data) = Len(Arg(s))
            /\ \A k \in 1..Len(Arg(s)) : out[s].data[k] = PooledRow(Arg(s)[k])

\* A call over more than one batch, with texts of different pooled vectors,
\* has returned.
C1_Witness ==
    /\ Bound("whole")
    /\ Len(texts) > batch_size
    /\ texts[1] # texts[Len(texts)]
    /\ PooledRow(texts[1]) # PooledRow(texts[Len(texts)])

\* C2: once the split has been made (the notebook stands before Step 9), row
\* k of the embedding matrix that was split is the embedding of the current
\* texts[k], whose label is labels[k].
C2_EmbeddingsOfCurrentTexts ==
    cell = "step9" =>
        /\ embeddings.shape[1] = Len(texts)
        /\ Len(labels) = Len(texts)
        /\ \A k \in 1..Len(texts) : embeddings.data[k] = PooledRow(texts[k])

\* C3: for a cut of the corpus into two non-empty consecutive batches, the
\* concatenation of the two calls' outputs is the output of the call on the
\* whole corpus.
C3_BatchInvariant ==
    (/\ Bound("head") /\ Bound("tail") /\ Bound("whole")
     /\ 0 < cut /\ cut < Len(texts))
        => out["whole"] = Concatenate(out["head"], out["tail"])

\* All three calls returned, the whole corpus taking more than one batch of
\* the extractor and the cut not falling on a batch boundary.
C3_Witness ==
    /\ Bound("head") /\ Bound("tail") /\ Bound("whole")
    /\ Len(texts) > batch_size
    /\ 0 < cut /\ cut < Len(texts)
    /\ cut % batch_size # 0
    /\ texts[1] # texts[Len(texts)]

\* C4: the row of a text no longer than the maximum length is the mean of
\* its hidden states over its non-padding positions only.
C4_MaskedMeanPooling ==
    \A s \in Slots :
        Bound(s) =>
            \A k \in 1..Len(Arg(s)) :
                Len(Arg(s)[k].tokens) <= max_length
                    => out[s].data[k] = MaskedMean(Arg(s)[k])

\* C5: the array returned for an empty text sequence has shape (0, D).
C5_EmptyShape ==
    \A s \in Slots :
        (Bound(s) /\ Arg(s) = <<>>) => out[s].shape = <<0, hidden_size>>

\* ceil(n / batch_size)
BatchCount(n) == (n + batch_size - 1) \div batch_size

Failed == exc # "none"

\* C6: in a call on an empty text sequence the tokenizer and the encoder are
\* never invoked, the only step the call can take from the loop head is the
\* return, and the call ends with a result bound and no exception.
C6_EmptyInvokesNothing ==
    (caller \in Slots /\ Arg(caller) = <<>>) =>
        /\ tokenizer_calls = 0
        /\ encoder_calls = <<>>
        /\ ~Failed
        /\ pc # "fwd"
        /\ pc = "for" => (ENABLED Return /\ ~ENABLED Tokenize
                          /\ ~ENABLED TokenizerRaises)
        /\ pc = "idle" => Bound(caller)

\* A call on an empty sequence has returned.
C6_Witness ==
    /\ pc = "idle"
    /\ caller \in Slots
    /\ Arg(caller) = <<>>
    /\ Bound(caller)
    /\ tokenizer_calls = 0

\* C7: the k-th encoder invocation of a call gets the slice
\* texts[(k-1)B : kB], which is non-empty and has at most B texts, and only
\* the last one may have fewer; a call that returns has made ceil(N/B)
\* invocations; for N = B+1 the sizes are [B, 1] and the second batch's row
\* is the last row of the output.
C7_ConsecutiveBatches ==
    LET N == Len(f_texts) IN
    caller \in Slots =>
        /\ \A k \in 1..Len(encoder_calls) :
              /\ encoder_calls[k].start = (k - 1) * batch_size
              /\ encoder_calls[k].size = Min(batch_size, N - (k - 1) * batch_size)
              /\ encoder_calls[k].size >= 1
              /\ encoder_calls[k].size < batch_size => k = BatchCount(N)
        /\ pc = "fwd" =>
              /\ batch_texts = Slice(f_texts, i, i + batch_size)
              /\ inputs = Tokenizer(batch_texts, max_length)
              /\ i = Len(encoder_calls) * batch_size
        /\ (pc = "idle" /\ ~Failed) =>
              /\ Len(encoder_calls) = BatchCount(N)
              /\ N = batch_size + 1 =>
                    /\ [k \in 1..2 |-> encoder_calls[k].size] = <<batch_size, 1>>
                    /\ out[caller].data[N] = PooledRow(f_texts[N])

\* A call on B+1 texts has returned.
C7_Witness ==
    /\ pc = "idle"
    /\ caller \in Slots
    /\ ~Failed
    /\ Len(f_texts) = batch_size + 1
    /\ Len(encoder_calls) = 2
    /\ Bound(caller)

\* A step in which the call in progress fails.
C8_StepFails == ~Failed /\ Failed'

\* C8: the step in which the tokenizer or the encoder fails ends the call:
\* the caller sees that very failure, its result variables keep their
\* values, the encoder has been invoked for the batches up to the failing
\* one only, and nothing is invoked after the failure for that call.
C8_FailureAborts ==
    [][/\ C8_StepFails =>
            /\ pc' = "idle"
            /\ out' = out
            /\ embeddings' = embeddings
            /\ exc' = (IF pc = "for" THEN "TokenizerError" ELSE "EncoderError")
            /\ Len(encoder_calls') = i \div batch_size + (IF pc = "fwd" THEN 1 ELSE 0)
            /\ tokenizer_calls' = i \div batch_size + 1
       /\ (Failed /\ Failed') =>
            /\ encoder_calls' = encoder_calls
            /\ tokenizer_calls' = tokenizer_calls
            /\ f_embeddings' = f_embeddings
            /\ out' = out]_vars

\* The encoder failed on a later batch of a call whose variable held the
\* result of an earlier call: rows were collected and none was delivered.
C8_Witness ==
    /\ exc = "EncoderError"
    /\ pc = "idle"
    /\ Len(f_embeddings) > 0
    /\ caller \in Slots
    /\ Bound(caller)
    /\ Len(out[caller].data) > Len(f_embeddings)

\* C9: calls with the same texts return identical arrays: a variable that
\* holds the result of a call holds the same value after a later call with
\* the same texts, and two variables bound by calls with equal texts are
\* equal.
C9_Deterministic ==
    /\ [](\A s, t \in Slots :
            (Bound(s) /\ Bound(t) /\ Arg(s) = Arg(t)) => out[s] = out[t])
    /\ [][\A s \in Slots : Bound(s) => out'[s] = out[s]]_vars

\* Two calls with the same non-empty multi-batch texts have returned.
C9_Witness ==
    /\ pc = "idle"
    /\ caller = "head"
    /\ Bound("head") /\ Bound("whole")
    /\ cut = Len(texts)
    /\ Len(texts) > batch_size

\* C10: no step of a call changes the module-level texts, labels,
\* embeddings, max_length or device, the encoder or the tokenizer, or the
\* text sequence the call was given; the one thing that accumulates is the
\* call's own list, which only grows at its end.
C10_NoSideEffects ==
    [][/\ UNCHANGED <<texts, labels, embeddings, max_length, device,
                      teacher_model, tokenizer>>
       /\ pc # "idle" =>
            /\ f_texts' = f_texts
            /\ Len(f_embeddings') >= Len(f_embeddings)
            /\ SubSeq(f_embeddings', 1, Len(f_embeddings)) = f_embeddings]_vars

\* A call over more than one batch has returned.
C10_Witness ==
    /\ pc = "idle"
    /\ caller = "whole"
    /\ Bound("whole")
    /\ Len(f_embeddings) > batch_size

\* C11: the list of a call holds min(k*B, N) rows once k batches have been
\* processed (i = k*B), a step of the call never changes, removes or moves a
\* row already in the list, and the rows a step adds are the pooled vectors
\* of the batch's texts, in batch order, behind all earlier rows.
C11_AppendOnlyInOrder ==
    /\ [](caller \in Slots =>
            /\ i % batch_size = 0
            /\ Len(f_embeddings) = Min(i, Len(f_texts)))
    /\ [][pc # "idle" =>
            /\ Len(f_embeddings') >= Len(f_embeddings)
            /\ \A j \in 1..Len(f_embeddings) : f_embeddings'[j] = f_embeddings[j]
            /\ f_embeddings' # f_embeddings =>
                  /\ pc = "fwd"
                  /\ i' = i + batch_size
                  /\ Len(f_embeddings') = Len(f_embeddings) + Len(batch_texts)
                  /\ \A k \in 1..Len(batch_texts) :
                        f_embeddings'[Len(f_embeddings) + k] = PooledRow(batch_texts[k])]_vars

\* The second batch of a call has been processed, the first batch holding
\* two texts of different pooled vectors.
C11_Witness ==
    /\ caller \in Slots
    /\ pc = "for"
    /\ i >= 2 * batch_size
    /\ Len(f_embeddings) = Len(f_texts)
    /\ Len(f_embeddings) > batch_size
    /\ f_embeddings[1] # f_embeddings[2]

\* C13: every encoder invocation happens with gradient tracking disabled;
\* entering a batch's scope saves the mode and disables tracking, and every
\* step that leaves the scope, a completed batch and a failing tokenizer or
\* encoder alike, puts back the mode saved on entry, so that outside the
\* scope the mode never differs from its value before the call.
C13_GradScoped ==
    /\ [](/\ \A k \in 1..Len(encoder_calls) : ~encoder_calls[k].grad
          /\ pc = "fwd" => ~grad_enabled)
    /\ [][/\ pc' = "fwd" => (no_grad_prev' = grad_enabled /\ ~grad_enabled')
          /\ pc' # "fwd" =>
                grad_enabled' = (IF pc = "fwd" THEN no_grad_prev ELSE grad_enabled)]_vars

\* A call made with gradient tracking enabled failed in the encoder on its
\* second batch, and tracking is enabled again.
C13_Witness ==
    /\ exc = "EncoderError"
    /\ pc = "idle"
    /\ Len(encoder_calls) >= 2
    /\ grad_enabled
    /\ ~encoder_calls[1].grad

\* C12: once a best model is named, every classifier of the model set has
\* been fitted and scored, the named one is a member whose recorded accuracy
\* no member exceeds and which every member before it in insertion order
\* falls short of; and it is that fitted classifier which is bound to
\* best_model, written to the artifact and used for the predictions on the
\* new examples.
C12_BestByAccuracy ==
    best_model_name # NoName =>
        /\ [k \in 1..Len(results) |-> results[k].name] = ModelNames
        /\ \A k \in 1..Len(ModelNames) : models[ModelNames[k]].fitted
        /\ \E b \in 1..Len(results) :
              /\ results[b].name = best_model_name
              /\ \A k \in 1..Len(results) :
                    ~FracLess(results[b].accuracy, results[k].accuracy)
              /\ \A k \in 1..(b - 1) :
                    FracLess(results[k].accuracy, results[b].accuracy)
        /\ best_model # Unbound =>
              /\ best_model = models[best_model_name]
              /\ artifact = best_model
        /\ predictions # Unbound =>
              /\ predictions.model = best_model_name
              /\ predictions.labels =
                    Predict(models[best_model_name], test_embeddings.data)

\* The run is complete and the maximum was tied between the second and the
\* third classifier, the first one scoring less: the second was selected,
\* saved and used.
C12_Witness ==
    /\ cell = "done"
    /\ FracLess(results[1].accuracy, results[2].accuracy)
    /\ results[2].accuracy = results[3].accuracy
    /\ best_model_name = ModelNames[2]
    /\ artifact.name = ModelNames[2]
    /\ predictions.model = ModelNames[2]
    /\ Len(predictions.labels) = Len(test_texts)

====
